---- MODULE Spec2Model ----
(***************************************************************************)
(* A model of candle's N-dimensional tensor (src/src/tensor.rs) and of the *)
(* layout engine it delegates to (module tensor::layout).                  *)
(*                                                                         *)
(* A tensor is a shared immutable buffer plus a layout.  A buffer is a     *)
(* sequence of numbers with an identity (the Rc allocation); f32 values    *)
(* are modelled by integers, on which + and * are exact.  Dimension        *)
(* indices and buffer positions are 0-based as in the source; TLA+         *)
(* sequences are 1-based, so element p of a buffer is data[p + 1].         *)
(***************************************************************************)
EXTENDS Integers, Sequences, FiniteSets, TLC

\* Bounds of the model.
MaxRank == 3
MaxDim == 3
MaxElems == 6
MaxViews == 1
MaxOps == 1
MaxOperandRank == 2

-----------------------------------------------------------------------------
(* Results: Rust's Result<_, TensorError>, Option and panics.              *)

\* TensorError::IncompatibleShapes(a, b)
Err(a, b) == [kind |-> "err", a |-> a, b |-> b]

\* A panic of the thread (index out of bounds, usize underflow).
Panic == [kind |-> "panic"]

\* Ok(None) of Layout::reshape: no view is possible.
NoView == [kind |-> "none"]

\* Ok((a, b)): two layouts or two tensors.
Pair(a, b) == [kind |-> "pair", lhs |-> a, rhs |-> b]

IsErr(r) == r.kind = "err"
IsPanic(r) == r.kind = "panic"

-----------------------------------------------------------------------------
(* Arithmetic helpers.                                                     *)

Max(a, b) == IF a >= b THEN a ELSE b

RECURSIVE ProdFrom(_, _)
\* Product of s[i..Len(s)]; 1 when the range is empty.
ProdFrom(s, i) == IF i > Len(s) THEN 1 ELSE s[i] * ProdFrom(s, i + 1)

Prod(s) == ProdFrom(s, 1)

RECURSIVE SumSeq(_)
SumSeq(s) == IF s = <<>> THEN 0 ELSE Head(s) + SumSeq(Tail(s))

\* The subsequence of s at the (ascending) positions of the set keep.
RECURSIVE PickFrom(_, _, _)
PickFrom(s, keep, i) ==
    IF i > Len(s) THEN <<>>
    ELSE (IF i \in keep THEN <<s[i]>> ELSE <<>>) \o PickFrom(s, keep, i + 1)

Pick(s, keep) == PickFrom(s, keep, 1)

-----------------------------------------------------------------------------
(* Layout: shape and strides.                                              *)

Layout(shape, strides) == [kind |-> "layout", shape |-> shape, strides |-> strides]

\* Row-major strides of a shape: strides[i] = product(shape[i+1..]).
RowMajor(shape) == [i \in 1..Len(shape) |-> ProdFrom(shape, i + 1)]

LayoutFrom(shape) == Layout(shape, RowMajor(shape))

LayoutScalar == LayoutFrom(<<>>)

Elems(l) == Prod(l.shape)

Rank(l) == Len(l.shape)

\* Sum of index[i] * strides[i].
IndexToPosition(l, index) ==
    SumSeq([i \in 1..Len(l.strides) |-> index[i] * l.strides[i]])

\* PositionToIndex without the reduction modulo the size of the dimension.
PositionToIndexUnreduced(l, position) ==
    LET canonical == RowMajor(l.shape)
    IN  [i \in 1..Rank(l) |-> position \div canonical[i]]

\* Decomposition of a position by the canonical strides of the shape.
PositionToIndex(l, position) ==
    LET canonical == RowMajor(l.shape)
    IN  [i \in 1..Rank(l) |-> (position \div canonical[i]) % l.shape[i]]

\* The indices of a shape in lexicographic order.
RECURSIVE Lexicographic(_)
Lexicographic(shape) ==
    IF shape = <<>> THEN << <<>> >>
    ELSE LET rest == Lexicographic(Tail(shape))
             n == Len(rest)
         IN  [k \in 1..(shape[1] * n) |-> <<(k - 1) \div n>> \o rest[((k - 1) % n) + 1]]

\* All valid indices in lexicographic order, the last dimension fastest.
IterIndex(l) == Lexicographic(l.shape)

\* The buffer positions of IterIndex, in the same order.
IterPosition(l) ==
    LET indices == IterIndex(l)
    IN  [k \in 1..Len(indices) |-> IndexToPosition(l, indices[k])]

\* The set of valid indices of a shape.
ValidIndices(shape) ==
    {Lexicographic(shape)[k] : k \in 1..Prod(shape)}

\* Expand leaving the stride of a stretched dimension as it was.
ExpandKeepStride(l, target) ==
    LET n == Rank(l)
        m == Len(target)
        off == m - n
        fits(i) == i <= off \/ l.shape[i - off] = target[i] \/ l.shape[i - off] = 1
    IN  IF m < n \/ \E i \in 1..m : ~fits(i)
        THEN Err(l.shape, target)
        ELSE Layout(target, [i \in 1..m |-> IF i <= off THEN 0 ELSE l.strides[i - off]])

\* Stretches size-1 dimensions, and prepends dimensions, with stride 0.
Expand(l, target) ==
    LET n == Rank(l)
        m == Len(target)
        off == m - n
        fits(i) == i <= off \/ l.shape[i - off] = target[i] \/ l.shape[i - off] = 1
    IN  IF m < n \/ \E i \in 1..m : ~fits(i)
        THEN Err(l.shape, target)
        ELSE Layout(target,
                    [i \in 1..m |->
                        IF i <= off THEN 0
                        ELSE IF l.shape[i - off] = target[i] THEN l.strides[i - off]
                        ELSE 0])

\* The shape padded on the left with 1s to rank m.
PadLeft(shape, m) ==
    [i \in 1..m |-> IF i <= m - Len(shape) THEN 1 ELSE shape[i - (m - Len(shape))]]

\* NumPy broadcasting of two layouts: the two expanded layouts, or an error.
LayoutBroadcast(l, other) ==
    LET m == Max(Rank(l), Rank(other))
        a == PadLeft(l.shape, m)
        b == PadLeft(other.shape, m)
        legal(i) == a[i] = b[i] \/ a[i] = 1 \/ b[i] = 1
        target == [i \in 1..m |-> Max(a[i], b[i])]
        lhs == Expand(l, target)
        rhs == Expand(other, target)
    IN  IF \E i \in 1..m : ~legal(i) THEN Err(l.shape, other.shape)
        ELSE IF IsErr(lhs) THEN lhs
        ELSE IF IsErr(rhs) THEN rhs
        ELSE Pair(lhs, rhs)

\* A view of the layout under another shape, NoView, or an error.
LayoutReshape(l, shape) ==
    IF Elems(l) # Prod(shape) THEN Err(l.shape, shape)
    ELSE IF IterPosition(l) = [k \in 1..Elems(l) |-> k - 1]
         THEN LayoutFrom(shape)
         ELSE NoView

\* Swaps two dimensions (0-based) in shape and strides.
LayoutTranspose(l, dim0, dim1) ==
    IF dim0 >= Rank(l) \/ dim1 >= Rank(l) THEN Err(l.shape, <<dim0, dim1>>)
    ELSE LET sw(i) == IF i = dim0 + 1 THEN dim1 + 1
                      ELSE IF i = dim1 + 1 THEN dim0 + 1 ELSE i
         IN  Layout([i \in 1..Rank(l) |-> l.shape[sw(i)]],
                    [i \in 1..Rank(l) |-> l.strides[sw(i)]])

IsPermutation(perm, n) ==
    /\ Len(perm) = n
    /\ \A i \in 1..n : perm[i] < n
    /\ \A i, j \in 1..n : i # j => perm[i] # perm[j]

\* Reorders shape and strides by a permutation (0-based) of the dimensions.
LayoutPermute(l, perm) ==
    IF ~IsPermutation(perm, Rank(l)) THEN Err(l.shape, perm)
    ELSE Layout([i \in 1..Rank(l) |-> l.shape[perm[i] + 1]],
                [i \in 1..Rank(l) |-> l.strides[perm[i] + 1]])

\* Removes every dimension of size 1.
LayoutSqueeze(l) ==
    LET keep == {i \in 1..Rank(l) : l.shape[i] # 1}
    IN  Layout(Pick(l.shape, keep), Pick(l.strides, keep))

\* The result layout and the reducer layout of a reduction over dims, or an
\* error.  Tensor::matmul sums the last axis of (..., m, n, k) "to get
\* (..., m, n, 1)" and then drops that axis itself, so the result layout keeps
\* every reduced dimension with size 1; the reducer is that layout with
\* stride 0 on the reduced dimensions.
LayoutReduce(l, dims) ==
    LET bad == \/ \E i \in 1..Len(dims) : dims[i] >= Rank(l)
               \/ \E i, j \in 1..Len(dims) : i # j /\ dims[i] = dims[j]
        gone == {dims[i] + 1 : i \in 1..Len(dims)}
        result == LayoutFrom([i \in 1..Rank(l) |-> IF i \in gone THEN 1 ELSE l.shape[i]])
    IN  IF bad THEN Err(l.shape, dims)
        ELSE Pair(result,
                  Layout(result.shape,
                         [i \in 1..Rank(l) |-> IF i \in gone THEN 0 ELSE result.strides[i]]))

-----------------------------------------------------------------------------
(* Tensor: a shared buffer (identity buf, contents data) and a layout.     *)

Tensor(buf, data, layout) ==
    [kind |-> "tensor", buf |-> buf, data |-> data, layout |-> layout]

IsTensor(r) == r.kind = "tensor"

\* The unary and binary closures passed to map, zip and reduce.
Apply1(f, x) == IF f = "neg" THEN 0 - x ELSE x + 1

Apply2(f, x, y) == IF f = "add" THEN x + y ELSE IF f = "mul" THEN x * y ELSE x - y

\* Tensor::scalar
TensorScalar(x, id) == Tensor(id, <<x>>, LayoutScalar)

\* Tensor::shaped without the comparison of elems() with data.len().
TensorShapedUnchecked(shape, data, id) == Tensor(id, data, LayoutFrom(shape))

\* Tensor::shaped
TensorShaped(shape, data, id) ==
    LET layout == LayoutFrom(shape)
    IN  IF Elems(layout) # Len(data) THEN Err(shape, <<Len(data)>>)
        ELSE Tensor(id, data, layout)

\* Tensor::from(Vec<f32>)
TensorFrom(data, id) == Tensor(id, data, LayoutFrom(<<Len(data)>>))

\* Index<&[usize]>: the element at a per-dimension index, or a panic.
TensorIndex(t, index) ==
    LET pos == IndexToPosition(t.layout, index)
    IN  IF pos >= Len(t.data) THEN Panic ELSE [kind |-> "value", value |-> t.data[pos + 1]]

\* TensorRowIter: does the row-major iteration read outside the buffer?
IterPanics(t) ==
    LET positions == IterPosition(t.layout)
    IN  \E k \in 1..Len(positions) : positions[k] >= Len(t.data)

\* TensorRowIter: the elements in row-major logical order.
Iter(t) ==
    LET positions == IterPosition(t.layout)
    IN  [k \in 1..Len(positions) |-> t.data[positions[k] + 1]]

\* Tensor::map
TensorMap(t, f, id) ==
    LET xs == Iter(t)
    IN  IF IterPanics(t) THEN Panic
        ELSE Tensor(id, [k \in 1..Len(xs) |-> Apply1(f, xs[k])],
                    LayoutFrom(t.layout.shape))

\* Tensor::broadcast
TensorBroadcast(t, other) ==
    LET r == LayoutBroadcast(t.layout, other.layout)
    IN  IF IsErr(r) THEN r
        ELSE Pair(Tensor(t.buf, t.data, r.lhs), Tensor(other.buf, other.data, r.rhs))

\* Tensor::zip building the result layout from the shape of self.
TensorZipOwnShape(t, other, f, id) ==
    LET b == TensorBroadcast(t, other)
        xs == Iter(b.lhs)
        ys == Iter(b.rhs)
        n == IF Len(xs) <= Len(ys) THEN Len(xs) ELSE Len(ys)
    IN  IF IsErr(b) THEN b
        ELSE IF IterPanics(b.lhs) \/ IterPanics(b.rhs) THEN Panic
        ELSE Tensor(id, [k \in 1..n |-> Apply2(f, xs[k], ys[k])],
                    LayoutFrom(t.layout.shape))

\* Tensor::zip
TensorZip(t, other, f, id) ==
    LET b == TensorBroadcast(t, other)
        xs == Iter(b.lhs)
        ys == Iter(b.rhs)
        n == IF Len(xs) <= Len(ys) THEN Len(xs) ELSE Len(ys)
    IN  IF IsErr(b) THEN b
        ELSE IF IterPanics(b.lhs) \/ IterPanics(b.rhs) THEN Panic
        ELSE Tensor(id, [k \in 1..n |-> Apply2(f, xs[k], ys[k])],
                    LayoutFrom(b.lhs.layout.shape))

\* The accumulation loop of Tensor::reduce from the k-th index on.
RECURSIVE ReduceLoop(_, _, _, _, _, _)
ReduceLoop(t, reducer, f, indices, res, k) ==
    IF k > Len(indices) THEN res
    ELSE LET src == IndexToPosition(t.layout, indices[k])
             dst == IndexToPosition(reducer, indices[k])
         IN  ReduceLoop(t, reducer, f, indices,
                        [res EXCEPT ![dst + 1] = Apply2(f, res[dst + 1], t.data[src + 1])],
                        k + 1)

\* Tensor::reduce
TensorReduce(t, dims, default, f, id) ==
    LET r == LayoutReduce(t.layout, dims)
        indices == IterIndex(t.layout)
        oob == \E k \in 1..Len(indices) :
                   \/ IndexToPosition(t.layout, indices[k]) >= Len(t.data)
                   \/ IndexToPosition(r.rhs, indices[k]) >= Elems(r.lhs)
    IN  IF IsErr(r) THEN r
        ELSE IF oob THEN Panic
        ELSE Tensor(id,
                    ReduceLoop(t, r.rhs, f, indices, [k \in 1..Elems(r.lhs) |-> default], 1),
                    r.lhs)

\* impl ops::Add calling zip on the right operand.
TensorAddFlipped(t, rhs, id) == TensorZip(rhs, t, "add", id)

\* impl ops::Add for &Tensor
TensorAdd(t, rhs, id) == TensorZip(t, rhs, "add", id)

\* impl ops::Mul for &Tensor
TensorMul(t, rhs, id) == TensorZip(t, rhs, "mul", id)

\* Tensor::sum
TensorSum(t, dims, id) == TensorReduce(t, dims, 0, "add", id)

\* Tensor::product starting from 0.0.
TensorProductFromZero(t, dims, id) == TensorReduce(t, dims, 0, "mul", id)

\* Tensor::product
TensorProduct(t, dims, id) == TensorReduce(t, dims, 1, "mul", id)

\* Tensor::squeeze
TensorSqueeze(t) == Tensor(t.buf, t.data, LayoutSqueeze(t.layout))

\* Tensor::transpose cloning the buffer into a new allocation.
TensorTransposeCloning(t, dim0, dim1) ==
    LET layout == LayoutTranspose(t.layout, dim0, dim1)
    IN  IF IsErr(layout) THEN layout ELSE Tensor(t.buf + 1, t.data, layout)

\* Tensor::transpose
TensorTranspose(t, dim0, dim1) ==
    LET layout == LayoutTranspose(t.layout, dim0, dim1)
    IN  IF IsErr(layout) THEN layout ELSE Tensor(t.buf, t.data, layout)

\* Tensor::permute
TensorPermute(t, permutation) ==
    LET layout == LayoutPermute(t.layout, permutation)
    IN  IF IsErr(layout) THEN layout ELSE Tensor(t.buf, t.data, layout)

\* Tensor::reshape giving up when the layout allows no view.
TensorReshapeNoRetry(t, shape, id) ==
    LET r == LayoutReshape(t.layout, shape)
    IN  IF IsErr(r) THEN r
        ELSE IF r = NoView THEN Err(t.layout.shape, shape)
        ELSE Tensor(t.buf, t.data, r)

\* Tensor::reshape: a view when the layout allows one, else a clone of the
\* buffer wrapped by Tensor::from and reshaped again.
RECURSIVE TensorReshape(_, _, _)
TensorReshape(t, shape, id) ==
    LET r == LayoutReshape(t.layout, shape)
    IN  IF IsErr(r) THEN r
        ELSE IF r = NoView THEN TensorReshape(TensorFrom(t.data, id), shape, id)
        ELSE Tensor(t.buf, t.data, r)

\* The number of buffer clones Tensor::reshape makes before it returns.
RECURSIVE ReshapeClones(_, _)
ReshapeClones(t, shape) ==
    LET r == LayoutReshape(t.layout, shape)
    IN  IF IsErr(r) THEN 0
        ELSE IF r = NoView THEN 1 + ReshapeClones(TensorFrom(t.data, 0), shape)
        ELSE 0

\* Vec::insert(i, x) and Vec::remove(i), 0-based.
Insert(s, i, x) == SubSeq(s, 1, i) \o <<x>> \o SubSeq(s, i + 1, Len(s))

Remove(s, i) == SubSeq(s, 1, i) \o SubSeq(s, i + 2, Len(s))

\* The tail of Tensor::matmul: the shape of the result and the last reshape.
MatmulFinish(sumprod, lhs_dims, rhs_dims, id) ==
    LET s == sumprod.layout.shape
        shape0 == SubSeq(s, 1, Len(s) - 1)
        shape1 == IF lhs_dims = 1 THEN Remove(shape0, Len(shape0) - 2) ELSE shape0
        shape2 == IF rhs_dims = 1 THEN Remove(shape1, Len(shape1) - 1) ELSE shape1
    IN  IF Len(s) < 1 THEN Panic
        ELSE IF lhs_dims = 1 /\ Len(shape0) < 2 THEN Panic
        ELSE IF rhs_dims = 1 /\ Len(shape1) < 1 THEN Panic
        ELSE TensorReshape(sumprod, shape2, id)

\* Tensor::matmul
TensorMatmul(t, other, id) ==
    LET lhs_shape0 == t.layout.shape
        rhs_shape0 == other.layout.shape
        lhs_dims == Len(lhs_shape0)
        rhs_dims == Len(rhs_shape0)
        lhs_shape1 == IF lhs_dims = 1 THEN Insert(lhs_shape0, 0, 1) ELSE lhs_shape0
        rhs_shape1 == IF rhs_dims = 1 THEN rhs_shape0 \o <<1>> ELSE rhs_shape0
        lhs_shape == Insert(lhs_shape1, Len(lhs_shape1) - 1, 1)
        rhs_shape == Insert(rhs_shape1, Len(rhs_shape1) - 2, 1)
        lhs == TensorReshape(t, lhs_shape, id)
        rhs == TensorReshape(other, rhs_shape, id)
        rhsT == TensorTranspose(rhs, Len(rhs_shape) - 1, Len(rhs_shape) - 2)
        prod == TensorMul(lhs, rhsT, id)
        sumprod == TensorSum(prod, <<Len(prod.layout.shape) - 1>>, id)
    IN  IF lhs_dims = 0 \/ rhs_dims = 0 THEN Err(lhs_shape0, rhs_shape0)
        ELSE IF lhs_shape1[Len(lhs_shape1)] # rhs_shape1[Len(rhs_shape1) - 1]
             THEN Err(lhs_shape1, rhs_shape1)
        ELSE IF ~IsTensor(lhs) THEN lhs
        ELSE IF ~IsTensor(rhs) THEN rhs
        ELSE IF ~IsTensor(rhsT) THEN rhsT
        ELSE IF ~IsTensor(prod) THEN prod
        ELSE IF ~IsTensor(sumprod) THEN sumprod
        ELSE MatmulFinish(sumprod, lhs_dims, rhs_dims, id)

-----------------------------------------------------------------------------
(* The state machine: a caller that holds one tensor t, builds it with a   *)
(* constructor and applies the public operations to it.  The right-hand    *)
(* operand of a binary operation is another tensor the caller built.       *)
(* last records the most recent call: its receiver, argument and result.   *)

VARIABLES t, last, nbuf, nviews, nops

vars == <<t, last, nbuf, nviews, nops>>

\* The inputs of the calls.
Dims == 1..MaxDim

Shapes == {s \in UNION {[1..r -> Dims] : r \in 0..MaxRank} : Prod(s) <= MaxElems}

Ramp(n) == [i \in 1..n |-> i]

DataSet == {Ramp(n) : n \in 1..MaxElems}

ScalarVals == {0, 2}

Axes == 0..(MaxRank - 1)

Orders == {p \in UNION {[1..r -> Axes] : r \in 0..MaxRank} : IsPermutation(p, Len(p))}

\* The members of a set of numbers in ascending order.
RECURSIVE Ascending(_)
Ascending(S) ==
    IF S = {} THEN <<>>
    ELSE LET m == CHOOSE x \in S : \A y \in S : x <= y
         IN  <<m>> \o Ascending(S \ {m})

\* The dims arguments of a reduction: every set of axes, and a repeated axis.
DimLists == {Ascending(S) : S \in SUBSET Axes} \cup {<<0, 0>>}

\* The tensors a caller can pass as the other operand: built by shaped in a
\* buffer of its own, or a transposed view of one, or the receiver itself.
Built(id) ==
    {TensorShaped(s, Ramp(Prod(s)), id) : s \in {x \in Shapes : Len(x) <= MaxOperandRank}}

Operands(self, id) ==
    Built(id)
    \cup {TensorTranspose(o, 0, 1) : o \in {b \in Built(id) : Rank(b.layout) >= 2}}
    \cup {self}

NoArg == <<>>

Call(op, self, other, arg, out) ==
    [op |-> op, self |-> self, other |-> other, arg |-> arg, out |-> out]

\* The caller keeps the result when the call returns a tensor.
Keep(out) == IF IsTensor(out) THEN out ELSE t

Init ==
    /\ t = TensorScalar(0, 0)
    /\ last = Call("scalar", NoArg, NoArg, 0, TensorScalar(0, 0))
    /\ nbuf = 0
    /\ nviews = 0
    /\ nops = 0

\* A constructor: the first buffer the caller allocates.
Construct(op, arg, out) ==
    /\ nbuf = 0
    /\ t' = Keep(out)
    /\ last' = Call(op, NoArg, NoArg, arg, out)
    /\ nbuf' = nbuf + 1
    /\ UNCHANGED <<nviews, nops>>

\* The bounds on the length of a run.
CanView == nviews < MaxViews

CanOperate == nops < MaxOps

\* A view operation: never allocates.
View(op, arg, out) ==
    /\ t' = Keep(out)
    /\ last' = Call(op, t, NoArg, arg, out)
    /\ nviews' = nviews + 1
    /\ UNCHANGED <<nbuf, nops>>

\* Any other operation: may allocate the buffer nbuf + 1.
Operate(op, other, arg, out) ==
    /\ t' = Keep(out)
    /\ last' = Call(op, t, other, arg, out)
    /\ nbuf' = nbuf + 1
    /\ nops' = nops + 1
    /\ UNCHANGED nviews

\* A read of the tensor or of its layout: t is left alone.
Probe(op, arg, out) ==
    /\ last' = Call(op, t, NoArg, arg, out)
    /\ nops' = nops + 1
    /\ UNCHANGED <<t, nbuf, nviews>>

NewScalar == \E x \in ScalarVals : Construct("scalar", x, TensorScalar(x, nbuf + 1))

NewShaped ==
    \E shape \in Shapes, data \in DataSet :
        Construct("shaped", <<shape, data>>, TensorShaped(shape, data, nbuf + 1))

NewFrom == \E data \in DataSet : Construct("from", data, TensorFrom(data, nbuf + 1))

Squeeze == CanView /\ View("squeeze", NoArg, TensorSqueeze(t))

Transpose ==
    CanView /\ \E dim0, dim1 \in Axes :
        View("transpose", <<dim0, dim1>>, TensorTranspose(t, dim0, dim1))

Permute == CanView /\ \E p \in Orders : View("permute", p, TensorPermute(t, p))

Reshape ==
    CanOperate /\ \E shape \in Shapes :
        Operate("reshape", NoArg, shape, TensorReshape(t, shape, nbuf + 1))

Map ==
    CanOperate /\ \E f \in {"neg", "inc"} :
        Operate("map", NoArg, f, TensorMap(t, f, nbuf + 1))

Zip ==
    CanOperate /\ \E o \in Operands(t, nbuf + 2) :
        Operate("zip", o, "sub", TensorZip(t, o, "sub", nbuf + 1))

Add ==
    CanOperate /\ \E o \in Operands(t, nbuf + 2) :
        Operate("add", o, "add", TensorAdd(t, o, nbuf + 1))

Mul ==
    CanOperate /\ \E o \in Operands(t, nbuf + 2) :
        Operate("mul", o, "mul", TensorMul(t, o, nbuf + 1))

Sum ==
    CanOperate /\ \E dims \in DimLists :
        Operate("sum", NoArg, dims, TensorSum(t, dims, nbuf + 1))

Product ==
    CanOperate /\ \E dims \in DimLists :
        Operate("product", NoArg, dims, TensorProduct(t, dims, nbuf + 1))

Matmul ==
    CanOperate /\ \E o \in Operands(t, nbuf + 2) :
        Operate("matmul", o, NoArg, TensorMatmul(t, o, nbuf + 1))

Index ==
    CanOperate /\ \E index \in ValidIndices(t.layout.shape) : Probe("index", index, TensorIndex(t, index))

IndexToPositionOf ==
    CanOperate /\ \E index \in ValidIndices(t.layout.shape) :
        Probe("index_to_position", index,
              [kind |-> "position", value |-> IndexToPosition(t.layout, index)])

PositionToIndexOf ==
    CanOperate /\ \E position \in 0..(MaxElems - 1) :
        /\ position < Elems(t.layout)
        /\ Probe("position_to_index", position,
                 [kind |-> "index", value |-> PositionToIndex(t.layout, position)])

ExpandLayout ==
    CanOperate /\ \E target \in Shapes :
        Probe("expand", target, Expand(t.layout, target))

Next ==
    \/ NewScalar
    \/ NewShaped
    \/ NewFrom
    \/ Squeeze
    \/ Transpose
    \/ Permute
    \/ Reshape
    \/ Map
    \/ Zip
    \/ Add
    \/ Mul
    \/ Sum
    \/ Product
    \/ Matmul
    \/ Index
    \/ IndexToPositionOf
    \/ PositionToIndexOf
    \/ ExpandLayout

Spec == Init /\ [][Next]_vars

-----------------------------------------------------------------------------
(* Reference notions the properties are stated with.                       *)

\* The element of a tensor at a logical index.
Elem(x, index) == x.data[IndexToPosition(x.layout, index) + 1]

IsCanonical(x) == x.layout = LayoutFrom(x.layout.shape)

\* The index of an operand under broadcasting: the trailing entries of the
\* result index, 0 along every dimension of size 1.
Project(index, shape) ==
    [d \in 1..Len(shape) |->
        IF shape[d] = 1 THEN 0 ELSE index[Len(index) - Len(shape) + d]]

Compatible(a, b) ==
    LET m == Max(Len(a), Len(b))
    IN  \A i \in 1..m :
            \/ PadLeft(a, m)[i] = PadLeft(b, m)[i]
            \/ PadLeft(a, m)[i] = 1
            \/ PadLeft(b, m)[i] = 1

BroadcastShape(a, b) ==
    LET m == Max(Len(a), Len(b))
    IN  [i \in 1..m |-> Max(PadLeft(a, m)[i], PadLeft(b, m)[i])]

\* The row-major position of an index, by Horner's rule over the shape.
RECURSIVE Horner(_, _, _, _)
Horner(shape, index, i, acc) ==
    IF i > Len(shape) THEN acc
    ELSE Horner(shape, index, i + 1, acc * shape[i] + index[i])

\* op folded over the elements of x at a set of indices, in no fixed order.
RECURSIVE Fold(_, _, _, _)
Fold(x, S, f, acc) ==
    IF S = {} THEN acc
    ELSE LET i == CHOOSE j \in S : TRUE
         IN  Fold(x, S \ {i}, f, Apply2(f, acc, Elem(x, i)))

AllDims(x) == [i \in 1..Rank(x.layout) |-> i - 1]

\* Matrix product: the operand shapes after the promotion of a rank-1 operand.
PromoteL(a) == IF Len(a) = 1 THEN <<1>> \o a ELSE a

PromoteR(b) == IF Len(b) = 1 THEN b \o <<1>> ELSE b

Batch(shape) == SubSeq(shape, 1, Len(shape) - 2)

MatmulDefined(x, y) ==
    LET a == PromoteL(x.layout.shape)
        b == PromoteR(y.layout.shape)
    IN  /\ Rank(x.layout) >= 1
        /\ Rank(y.layout) >= 1
        /\ a[Len(a)] = b[Len(b) - 1]
        /\ Compatible(Batch(a), Batch(b))

MatmulShape(x, y) ==
    LET a == PromoteL(x.layout.shape)
        b == PromoteR(y.layout.shape)
    IN  BroadcastShape(Batch(a), Batch(b))
        \o (IF Rank(x.layout) = 1 THEN <<>> ELSE <<a[Len(a) - 1]>>)
        \o (IF Rank(y.layout) = 1 THEN <<>> ELSE <<b[Len(b)]>>)

\* The sum over k of left[..., i, k] * right[..., k, j] at a result index.
MatmulEntry(x, y, index) ==
    LET a == PromoteL(x.layout.shape)
        b == PromoteR(y.layout.shape)
        nb == Len(BroadcastShape(Batch(a), Batch(b)))
        bi == SubSeq(index, 1, nb)
        i == IF Rank(x.layout) = 1 THEN 0 ELSE index[nb + 1]
        j == IF Rank(y.layout) = 1 THEN 0 ELSE index[Len(index)]
        left(k) == IF Rank(x.layout) = 1 THEN Elem(x, <<k>>)
                   ELSE Elem(x, Project(bi, Batch(a)) \o <<i, k>>)
        right(k) == IF Rank(y.layout) = 1 THEN Elem(y, <<k>>)
                    ELSE Elem(y, Project(bi, Batch(b)) \o <<k, j>>)
    IN  SumSeq([k \in 1..a[Len(a)] |-> left(k - 1) * right(k - 1)])

ZipOps == {"zip", "add", "mul"}

ViewOps == {"squeeze", "transpose", "permute"}

InBounds(x) ==
    \A index \in ValidIndices(x.layout.shape) :
        IndexToPosition(x.layout, index) < Len(x.data)

-----------------------------------------------------------------------------
(* Properties.                                                             *)

\* C1: reshaping a tensor to a shape of the same element count and back to its
\* own shape succeeds and gives a tensor with the same element at every
\* logical index, whether or not a reshape cloned the buffer.
C1_ReshapeRoundTrip ==
    (last.op = "reshape" /\ IsTensor(last.out)) =>
        LET back == TensorReshape(last.out, last.self.layout.shape, nbuf + 1)
        IN  /\ IsTensor(back)
            /\ \A index \in ValidIndices(last.self.layout.shape) :
                   Elem(back, index) = Elem(last.self, index)

\* C2: matmul of operands of rank >= 1 with matching inner dimensions and
\* broadcast-compatible batch dimensions succeeds, its shape is the broadcast
\* batch shape followed by (m, n) less the axes of the rank-1 promotions, and
\* every element is the sum over k of left[..., i, k] * right[..., k, j].
C2_Matmul ==
    (last.op = "matmul" /\ MatmulDefined(last.self, last.other)) =>
        /\ IsTensor(last.out)
        /\ last.out.layout.shape = MatmulShape(last.self, last.other)
        /\ \A index \in ValidIndices(MatmulShape(last.self, last.other)) :
               Elem(last.out, index) = MatmulEntry(last.self, last.other, index)

\* C3: zip of broadcast-compatible tensors returns a tensor in a fresh buffer
\* with the row-major layout of the broadcast shape, whose element at every
\* index is op of the operands' elements there, views included.
C3_ZipBroadcast ==
    (last.op \in ZipOps /\ Compatible(last.self.layout.shape, last.other.layout.shape)) =>
        LET shape == BroadcastShape(last.self.layout.shape, last.other.layout.shape)
        IN  /\ IsTensor(last.out)
            /\ last.out.layout = Layout(shape, [i \in 1..Len(shape) |-> ProdFrom(shape, i + 1)])
            /\ last.out.buf \notin {last.self.buf, last.other.buf}
            /\ Len(last.out.data) = Prod(shape)
            /\ \A index \in ValidIndices(shape) :
                   Elem(last.out, index) =
                       Apply2(last.arg,
                              Elem(last.self, Project(index, last.self.layout.shape)),
                              Elem(last.other, Project(index, last.other.layout.shape)))

C3_Witness ==
    /\ last.op \in ZipOps
    /\ IsTensor(last.out)
    /\ ~IsCanonical(last.self)
    /\ last.self.layout.shape # last.out.layout.shape
    /\ last.other.layout.shape # last.out.layout.shape

\* C4: zip, + and * fail exactly when some right-aligned pair of dimensions
\* differs with neither equal to 1; the error carries both operand shapes and
\* the caller gets no tensor.
C4_ZipMismatch ==
    (last.op \in ZipOps) =>
        /\ IsErr(last.out) <=> ~Compatible(last.self.layout.shape, last.other.layout.shape)
        /\ IsErr(last.out) =>
               /\ last.out = Err(last.self.layout.shape, last.other.layout.shape)
               /\ t = last.self
        /\ ~IsErr(last.out) => IsTensor(last.out)

C4_Witness ==
    /\ last.op = "add"
    /\ IsErr(last.out)
    /\ Len(last.self.layout.shape) = 2
    /\ Len(last.other.layout.shape) = 2

C6_IndexRoundTrip ==
    (last.op = "index_to_position" /\ IsCanonical(last.self)) =>
        /\ last.out.value = Horner(last.self.layout.shape, last.arg, 1, 0)
        /\ PositionToIndex(last.self.layout, last.out.value) = last.arg

C6_Witness ==
    /\ last.op = "index_to_position"
    /\ IsCanonical(last.self)
    /\ Rank(last.self.layout) = 3
    /\ last.arg[2] > 0
    /\ last.arg[3] > 0

\* C7: expand succeeds when every dimension, right-aligned against the target,
\* equals the target dimension or is 1; the result has the target shape,
\* stride 0 on prepended and on grown dimensions and the original stride on
\* unchanged ones; it fails when a dimension other than 1 would change size.
C7_Expand ==
    (last.op = "expand") =>
        LET l == last.self.layout
            off == Len(last.arg) - Rank(l)
            aligned == {d \in 1..Rank(l) : d + off >= 1}
        IN  /\ (off >= 0 /\ \A d \in aligned :
                                l.shape[d] = last.arg[d + off] \/ l.shape[d] = 1) =>
                   /\ last.out.kind = "layout"
                   /\ last.out.shape = last.arg
                   /\ \A i \in 1..off : last.out.strides[i] = 0
                   /\ \A d \in aligned :
                          last.out.strides[d + off] =
                              IF l.shape[d] = last.arg[d + off] THEN l.strides[d] ELSE 0
            /\ (\E d \in aligned : l.shape[d] # 1 /\ l.shape[d] # last.arg[d + off]) =>
                   IsErr(last.out)

C7_Witness ==
    /\ last.op = "expand"
    /\ last.out.kind = "layout"
    /\ Len(last.arg) > Rank(last.self.layout)
    /\ \E d \in 1..Rank(last.self.layout) :
           last.self.layout.shape[d] = 1 /\ last.out.shape[d + 1] > 1
    /\ \E i \in 1..Len(last.arg) : last.out.strides[i] > 0

\* C8: every position the layout of a reachable tensor yields for an in-range
\* index lies inside its buffer, and no call panics on an out-of-bounds read.
C8_InBounds ==
    /\ InBounds(t)
    /\ IsTensor(last.out) => InBounds(last.out)
    /\ ~IsPanic(last.out)

C8_Witness ==
    /\ last.op = "matmul"
    /\ IsTensor(last.out)
    /\ ~IsCanonical(last.self)
    /\ Elems(last.out.layout) > 1

\* C9: transposing dimensions 0 and 1 twice gives back the layout and the very
\* buffer of the tensor; squeeze, transpose and permute never allocate and
\* never change the buffer they share with their operand.
C9_ViewsShare ==
    /\ (last.op = "transpose" /\ last.arg = <<0, 1>> /\ Rank(last.self.layout) >= 2) =>
           /\ IsTensor(last.out)
           /\ LET back == TensorTranspose(last.out, 0, 1)
              IN  /\ IsTensor(back)
                  /\ back.layout = last.self.layout
                  /\ back.buf = last.self.buf
                  /\ back.data = last.self.data
    /\ (last.op \in ViewOps /\ IsTensor(last.out)) =>
           /\ last.out.buf = last.self.buf
           /\ last.out.data = last.self.data

C9_Witness ==
    /\ last.op = "transpose"
    /\ last.arg = <<0, 1>>
    /\ IsTensor(last.out)
    /\ last.out.layout # last.self.layout

\* C10: reshape fails exactly when the element counts differ; otherwise it
\* returns a tensor of the requested shape, also when no view is possible, and
\* then after one clone of the buffer.
C10_ReshapeFails ==
    (last.op = "reshape") =>
        /\ IsErr(last.out) <=> Prod(last.arg) # Elems(last.self.layout)
        /\ ~IsErr(last.out) =>
               /\ IsTensor(last.out)
               /\ last.out.layout.shape = last.arg
        /\ ReshapeClones(last.self, last.arg) <= 1

C10_Witness ==
    /\ last.op = "reshape"
    /\ IsTensor(last.out)
    /\ last.out.buf # last.self.buf

====
